---- MODULE Spec2Model ----
(***************************************************************************)
(* Forex news bot (src/bot.py): a 60-second task loop (check_news) that    *)
(* alerts a chat channel ten minutes before each high-impact calendar      *)
(* event, a "!nextnews" command handler (on_message), and the in-memory    *)
(* TTL cache of the calendar feed that both read (get_red_news).           *)
(*                                                                         *)
(* Instants and durations are whole seconds; instant 0 is midnight UTC of  *)
(* day 0.  An event is the tuple <<event_time_utc, summary>> the code      *)
(* stores.  The strings the code searches (DESCRIPTION, message content)   *)
(* are searched character by character (Chars), so that "in", "lower" and  *)
(* "startswith" are computed, not assumed.                                 *)
(***************************************************************************)
EXTENDS Integers, Sequences, FiniteSets

VARIABLES
    clock,          \* the wall clock, datetime.now(pytz.UTC)
    LAST_FETCH,     \* bot.py:37  instant of the last successful fetch, or None
    CACHED_EVENTS,  \* bot.py:38  events stored by the last successful fetch
    running,        \* check_news.is_running(): the task loop is scheduled
    tick,           \* the check_news iteration under way or just ended: its locals
    call,           \* record of the get_red_news invocation of the handler just run
    reply,          \* record of what the on_message invocation just run has sent
    lastGood,       \* history: the outcome of the most recent successful refresh
    hist,           \* history: the iterations of check_news (SpecCadence, SpecRapid)
    thread,         \* what the one thread that runs the event loop is doing
    inflight        \* the get_red_news invocations inside requests.get (SpecFetch only)

vars == <<clock, LAST_FETCH, CACHED_EVENTS, running, tick, call, reply, lastGood, hist,
          thread, inflight>>

-----------------------------------------------------------------------------
(* Program constants *)

None == -1                      \* Python's None, for an instant that is absent
CACHE_TTL_MINUTES == 15
WINDOW_LOW_MINUTES == 9
WINDOW_HIGH_MINUTES == 10
LOOP_SECONDS == 60
NEXT_COUNT == 3
SECONDS_PER_MINUTE == 60
SECONDS_PER_DAY == 86400
FETCH_TIMEOUT == 10
CHANNEL_ID == "1441268899369713684"   \* an id, only ever compared for equality

(* timedelta(minutes=m) in seconds *)
Minutes(m) == m * SECONDS_PER_MINUTE

-----------------------------------------------------------------------------
(* Bounds of the model *)

EarlyMinutes == 2   \* the clock is sampled around the first EarlyMinutes whole minutes
CadenceMinutes == 3 \* ... the first CadenceMinutes whole minutes, under SpecCadence
MaxDocLen == 2      \* components in a fetched calendar
MaxQueryLen == 4    \* components in a fetched calendar, under SpecQuery
MaxInFlight == 2    \* get_red_news invocations with a request outstanding
MaxTicks == 2       \* iterations of check_news recorded, under SpecRapid

-----------------------------------------------------------------------------
(* Text *)

Range(s) == {s[i] : i \in 1..Len(s)}

(* Python's  needle in haystack  for strings, on their characters *)
Contains(haystack, needle) ==
    \E i \in 1..(Len(haystack) - Len(needle) + 1) :
        SubSeq(haystack, i, i + Len(needle) - 1) = needle

(* Python's  text.startswith(prefix) *)
StartsWith(text, prefix) ==
    /\ Len(text) >= Len(prefix)
    /\ SubSeq(text, 1, Len(prefix)) = prefix

LowerChar(c) ==
    CASE c = "N" -> "n"
      [] c = "E" -> "e"
      [] c = "X" -> "x"
      [] c = "T" -> "t"
      [] c = "W" -> "w"
      [] c = "S" -> "s"
      [] c = "H" -> "h"
      [] c = "I" -> "i"
      [] OTHER -> c

(* Python's  text.lower() *)
Lower(text) == [i \in 1..Len(text) |-> LowerChar(text[i])]

MARKER_IMPACT_HIGH == "Impact: High"
MARKER_HIGH_IMPACT_EXPECTED == "High Impact Expected"
COMMAND == "!nextnews"

(* The characters of the strings that occur. *)
Chars(text) ==
    CASE text = "" -> <<>>
      [] text = "Impact: High" -> <<"I","m","p","a","c","t",":"," ","H","i","g","h">>
      [] text = "High Impact Expected" ->
            <<"H","i","g","h"," ","I","m","p","a","c","t"," ",
              "E","x","p","e","c","t","e","d">>
      [] text = "USD High Impact Expected." ->
            <<"U","S","D"," ","H","i","g","h"," ","I","m","p","a","c","t"," ",
              "E","x","p","e","c","t","e","d",".">>
      [] text = "Impact: Low" -> <<"I","m","p","a","c","t",":"," ","L","o","w">>
      [] text = "impact: high" -> <<"i","m","p","a","c","t",":"," ","h","i","g","h">>
      [] text = "!nextnews" -> <<"!","n","e","x","t","n","e","w","s">>
      [] text = "!NextNews 3" -> <<"!","N","e","x","t","N","e","w","s"," ","3">>
      [] text = "!next" -> <<"!","n","e","x","t">>

-----------------------------------------------------------------------------
(* The calendar feed: components, documents, HTTP responses *)

(* A DTSTART value: a datetime (wall-clock seconds, aware with a UTC offset *)
(* or naive) or a date (a day number).                                      *)
UtcDateTime(t) == [kind |-> "datetime", value |-> t, aware |-> TRUE, utcoffset |-> 0]
ZonedDateTime(t, off) == [kind |-> "datetime", value |-> t, aware |-> TRUE, utcoffset |-> off]
NaiveDateTime(t) == [kind |-> "datetime", value |-> t, aware |-> FALSE, utcoffset |-> 0]
Date(d) == [kind |-> "date", value |-> d, aware |-> FALSE, utcoffset |-> 0]

(* A calendar component: its name and the properties it carries (keys). *)
Component(name, keys, description, summary, dtstart) ==
    [name |-> name, keys |-> keys,
     DESCRIPTION |-> description, SUMMARY |-> summary, DTSTART |-> dtstart]

AllKeys == {"DESCRIPTION", "SUMMARY", "DTSTART"}

(* component.get(key, default) *)
Get(component, key, default) ==
    IF key \in component.keys THEN component[key] ELSE default

CompCPI == Component("VEVENT", AllKeys, "Impact: High", "CPI", UtcDateTime(660))
CompNFP == Component("VEVENT", AllKeys, "USD High Impact Expected.", "NFP",
                     ZonedDateTime(4261, 3600))
CompGDP == Component("VEVENT", AllKeys, "Impact: High", "GDP", NaiveDateTime(60))
CompDay == Component("VEVENT", {"DESCRIPTION", "DTSTART"},
                     "High Impact Expected", "", Date(1))
CompHoliday == Component("VEVENT", AllKeys, "Impact: Low", "Holiday", UtcDateTime(360))
CompSpeech == Component("VEVENT", AllKeys, "impact: high", "Speech", UtcDateTime(660))
CompNoStart == Component("VEVENT", {"DESCRIPTION", "SUMMARY"},
                         "Impact: High", "FOMC", Date(0))
CompZone == Component("VTIMEZONE", {"DESCRIPTION", "DTSTART"},
                      "Impact: High", "", NaiveDateTime(660))

(* The components calendars are made of. *)
Components ==
    {CompCPI, CompNFP, CompGDP, CompDay, CompHoliday, CompSpeech, CompNoStart, CompZone}

(* Summaries of the records whose description carries neither marker. *)
NormalSummaries == {"Holiday", "Speech"}

SeqsUpTo(S, n) == UNION {[1..k -> S] : k \in 0..n}

(* What cal.walk() yields for a calendar: its components in document order. *)
Documents == SeqsUpTo(Components, MaxDocLen)

(* The outcome of requests.get: an exception (timeout, connection error),  *)
(* or a response with a status code and a body; the body parses as a       *)
(* calendar (walk) or Calendar.from_ical rejects it.                       *)
NoResponse == [kind |-> "none", status_code |-> 0, parses |-> FALSE, walk |-> <<>>]
TransportFailure == [kind |-> "exception", status_code |-> 0, parses |-> FALSE, walk |-> <<>>]
Status(code) == [kind |-> "response", status_code |-> code, parses |-> FALSE, walk |-> <<>>]
Garbled == [kind |-> "response", status_code |-> 200, parses |-> FALSE, walk |-> <<>>]
Calendar(doc) == [kind |-> "response", status_code |-> 200, parses |-> TRUE, walk |-> doc]

Responses ==
    {TransportFailure, Status(429), Status(503), Garbled} \cup {Calendar(d) : d \in Documents}

-----------------------------------------------------------------------------
(* get_red_news (bot.py:41-123) *)

(* Fresh with the age compared by <= : a cache exactly TTL old still served *)
FreshInclusive(now_utc, lastFetch) ==
    /\ lastFetch # None
    /\ (now_utc - lastFetch) <= Minutes(CACHE_TTL_MINUTES)

(* bot.py:52  the cache is still fresh *)
Fresh(now_utc, lastFetch) ==
    /\ lastFetch # None
    /\ (now_utc - lastFetch) < Minutes(CACHE_TTL_MINUTES)

(* IsHighImpact matching the markers without regard to case *)
IsHighImpactAnyCase(description) ==
    \/ Contains(Lower(Chars(description)), Lower(Chars(MARKER_IMPACT_HIGH)))
    \/ Contains(Lower(Chars(description)), Lower(Chars(MARKER_HIGH_IMPACT_EXPECTED)))

(* bot.py:99  the description carries one of the two markers *)
IsHighImpact(description) ==
    ~ ( /\ ~Contains(Chars(description), Chars(MARKER_IMPACT_HIGH))
        /\ ~Contains(Chars(description), Chars(MARKER_HIGH_IMPACT_EXPECTED)) )

(* bot.py:104-109  the instant of a DTSTART value: a datetime as it is (a   *)
(* naive one read as UTC), a date as its midnight UTC.                      *)
EventTime(start) ==
    IF start.kind = "datetime"
    THEN IF start.aware THEN start.value - start.utcoffset ELSE start.value
    ELSE start.value * SECONDS_PER_DAY

(* Upcoming keeping an event that starts at the very instant of the call *)
UpcomingOrNow(event_time, now_utc) == event_time >= now_utc

(* bot.py:111  only events still ahead are kept *)
Upcoming(event_time, now_utc) == event_time > now_utc

(* IsHighImpact, computed once for each description that occurs. *)
Descriptions ==
    {"", "Impact: High", "High Impact Expected", "USD High Impact Expected.",
     "Impact: Low", "impact: high"}

HighImpact == [description \in Descriptions |-> IsHighImpact(description)]

(* bot.py:91-100  the component reaches line 102 *)
Qualifies(component) ==
    /\ component.name = "VEVENT"
    /\ HighImpact[Get(component, "DESCRIPTION", "")]

(* bot.py:102  component.get("DTSTART") is None for a qualifying component, *)
(* and .dt raises AttributeError, which nothing in get_red_news catches.    *)
WalkRaises(walk) ==
    \E i \in 1..Len(walk) : Qualifies(walk[i]) /\ "DTSTART" \notin walk[i].keys

(* Walk putting each kept event in front of the earlier ones:             *)
(* events.insert(0, ...)                                                    *)
RECURSIVE WalkNewestFirst(_, _)
WalkNewestFirst(walk, now_utc) ==
    IF walk = <<>> THEN <<>>
    ELSE LET component == Head(walk)
             rest == WalkNewestFirst(Tail(walk), now_utc)
         IN  IF ~Qualifies(component) THEN rest
             ELSE LET event_time == EventTime(component.DTSTART)
                  IN  IF Upcoming(event_time, now_utc)
                      THEN rest \o <<<<event_time, Get(component, "SUMMARY", "Unknown event")>>>>
                      ELSE rest

(* bot.py:88-112  the loop over cal.walk() *)
RECURSIVE Walk(_, _)
Walk(walk, now_utc) ==
    IF walk = <<>> THEN <<>>
    ELSE LET component == Head(walk)
             summary == Get(component, "SUMMARY", "Unknown event")
             rest == Walk(Tail(walk), now_utc)
         IN  IF ~Qualifies(component) THEN rest
             ELSE LET event_time == EventTime(component.DTSTART)
                  IN  IF Upcoming(event_time, now_utc)
                      THEN <<<<event_time, summary>>>> \o rest
                      ELSE rest

(* bot.py:74-77, 83-86  the except branches *)
Fallback(cached) == IF cached # <<>> THEN cached ELSE <<>>

(* Store adding the new events to the stored ones instead of replacing them *)
StoreMerged(now_utc, events, lastFetch, cached) ==
    [LAST_FETCH |-> now_utc, CACHED_EVENTS |-> cached \o events]

(* bot.py:114-116  the cache after a successful fetch and parse *)
Store(now_utc, events, lastFetch, cached) ==
    [LAST_FETCH |-> now_utc, CACHED_EVENTS |-> events]

(* The result of a call at now_utc with the cache (lastFetch, cached);      *)
(* response is what requests.get yields if it is called.  path names the    *)
(* return statement taken; raised: an exception left the function instead.  *)
Outcome(path, fetched, raised, ret, lastFetch, cached) ==
    [path |-> path, fetched |-> fetched, raised |-> raised, ret |-> ret,
     LAST_FETCH |-> lastFetch, CACHED_EVENTS |-> cached]

(* bot.py:56-123  the cache is not fresh: the request and what follows it *)
refresh(now_utc, response, lastFetch, cached) ==
    IF response.kind # "response"
    THEN Outcome("error", TRUE, FALSE, Fallback(cached), lastFetch, cached)
    ELSE IF response.status_code = 429
    THEN Outcome("rate_limited", TRUE, FALSE, cached, lastFetch, cached)
    ELSE IF response.status_code >= 400
    THEN Outcome("error", TRUE, FALSE, Fallback(cached), lastFetch, cached)
    ELSE IF ~response.parses
    THEN Outcome("parse_error", TRUE, FALSE, Fallback(cached), lastFetch, cached)
    ELSE IF WalkRaises(response.walk)
    THEN Outcome("raised", TRUE, TRUE, <<>>, lastFetch, cached)
    ELSE LET events == Walk(response.walk, now_utc)
             stored == Store(now_utc, events, lastFetch, cached)
         IN  Outcome("refreshed", TRUE, FALSE, events,
                     stored.LAST_FETCH, stored.CACHED_EVENTS)

get_red_news(now_utc, response, lastFetch, cached) ==
    IF Fresh(now_utc, lastFetch)
    THEN Outcome("cached", FALSE, FALSE, cached, lastFetch, cached)
    ELSE refresh(now_utc, response, lastFetch, cached)

(* The list get_red_news returned is the object CACHED_EVENTS is bound to   *)
(* after the call: `return CACHED_EVENTS` (lines 54, 68, 76, 85), and       *)
(* `return events` after `CACHED_EVENTS = events` (lines 116, 123); the     *)
(* `return []` of lines 77 and 86 is a new list.                            *)
ReturnsCache(r) ==
    \/ r.path \in {"cached", "rate_limited", "refreshed"}
    \/ r.path \in {"error", "parse_error"} /\ r.CACHED_EVENTS # <<>>

(* Rebind storing into the list object in place: CACHED_EVENTS[:] = events *)
RebindInPlace(t, r) ==
    IF r.path = "refreshed" /\ t.shared THEN [t EXCEPT !.events = r.CACHED_EVENTS] ELSE t

(* bot.py:88, 116  a refresh builds a new list and binds the global to it:  *)
(* the list a suspended iteration t holds is no longer the cache's, and is   *)
(* not changed.                                                             *)
Rebind(t, r) ==
    IF r.path = "refreshed" THEN [t EXCEPT !.shared = FALSE] ELSE t

(* The responses a call at now_utc can meet: none when no request is made. *)
Requests(now_utc, pool) ==
    IF Fresh(now_utc, LAST_FETCH) THEN {NoResponse} ELSE pool

-----------------------------------------------------------------------------
(* State *)

(* The locals of a check_news iteration.  shared: its `events` is the very *)
(* list object that the global CACHED_EVENTS is bound to.                   *)
NoTick ==
    [status |-> "none", now_utc |-> None, events |-> <<>>, idx |-> 0, sent |-> <<>>,
     shared |-> FALSE]

NoCall ==
    [caller |-> "none", now_utc |-> None, response |-> NoResponse,
     prevFetch |-> None, prevEvents |-> <<>>,
     path |-> "none", fetched |-> FALSE, raised |-> FALSE, ret |-> <<>>]

NoReply == [kind |-> "none", events |-> <<>>]

(* The record of one get_red_news invocation: who called, when, what the   *)
(* request met, the cache before the call, and the outcome.                *)
CallRecord(caller, now_utc, response, r) ==
    [caller |-> caller, now_utc |-> now_utc, response |-> response,
     prevFetch |-> LAST_FETCH, prevEvents |-> CACHED_EVENTS,
     path |-> r.path, fetched |-> r.fetched, raised |-> r.raised, ret |-> r.ret]

(* The most recent successful refresh after a call with outcome r. *)
GoodAfter(now_utc, response, r) ==
    IF r.path = "refreshed"
    THEN [at |-> now_utc, events |-> Walk(response.walk, now_utc)]
    ELSE lastGood

Init ==
    /\ clock = 0
    /\ LAST_FETCH = None
    /\ CACHED_EVENTS = <<>>
    /\ running = FALSE
    /\ tick = NoTick
    /\ call = NoCall
    /\ reply = NoReply
    /\ lastGood = [at |-> None, events |-> <<>>]
    /\ hist = <<>>
    /\ thread = "loop"
    /\ inflight = <<>>

-----------------------------------------------------------------------------
(* The clock *)

(* The instants at which the clock is sampled: a second before, at and    *)
(* after each whole minute up to `early`, and around the expiry of a cache *)
(* filled in the first seconds.                                            *)
Sampled(t, early) ==
    /\ t % SECONDS_PER_MINUTE \in {0, 1, SECONDS_PER_MINUTE - 1}
    /\ \/ t <= Minutes(early) + 1
       \/ /\ t >= Minutes(CACHE_TTL_MINUTES) - 1
          /\ t <= Minutes(CACHE_TTL_MINUTES) + 1

(* The seconds that can pass between two clock reads of one handler. *)
Lags(early) == {d \in {0, 1} : Sampled(clock + d, early)}

(* Time passes: to any later sampled instant. *)
Pass(early) ==
    /\ \E t \in (clock + 1)..(Minutes(CACHE_TTL_MINUTES) + 1) :
            Sampled(t, early) /\ clock' = t
    /\ UNCHANGED <<LAST_FETCH, CACHED_EVENTS, running, tick, call, reply, lastGood>>

-----------------------------------------------------------------------------
(* check_news (bot.py:126-161) *)

(* InWindow with the lower end included: 9 minutes <= diff *)
InWindowLowerIncluded(diff) ==
    /\ Minutes(WINDOW_LOW_MINUTES) <= diff
    /\ diff <= Minutes(WINDOW_HIGH_MINUTES)

(* InWindow with the upper end excluded: diff < 10 minutes *)
InWindowUpperExcluded(diff) ==
    /\ Minutes(WINDOW_LOW_MINUTES) < diff
    /\ diff < Minutes(WINDOW_HIGH_MINUTES)

(* InWindow two minutes wide: 8 minutes < diff <= 10 minutes *)
InWindowWide(diff) ==
    /\ Minutes(WINDOW_LOW_MINUTES - 1) < diff
    /\ diff <= Minutes(WINDOW_HIGH_MINUTES)

(* bot.py:144  the trigger window *)
InWindow(diff) ==
    /\ Minutes(WINDOW_LOW_MINUTES) < diff
    /\ diff <= Minutes(WINDOW_HIGH_MINUTES)

(* NextMatch passing over the events that an earlier iteration alerted *)
NextMatchOnce(events, now_utc, from) ==
    LET alerted == UNION {Range(hist[k].sent) : k \in 1..(Len(hist) - 1)}
        hits == {i \in from..Len(events) :
                    InWindow(events[i][1] - now_utc) /\ events[i] \notin alerted}
    IN  IF hits = {} THEN 0 ELSE CHOOSE i \in hits : \A j \in hits : i <= j

(* bot.py:140-144  the index of the first event from position from on that *)
(* is in the window at now_utc, or 0 when the loop runs off the end.        *)
NextMatch(events, now_utc, from) ==
    LET hits == {i \in from..Len(events) : InWindow(events[i][1] - now_utc)}
    IN  IF hits = {} THEN 0 ELSE CHOOSE i \in hits : \A j \in hits : i <= j

(* RunLoop leaving the loop after the first alert: a `break` after the send *)
RunLoopBreak(t, from) ==
    LET i == IF from = 1 THEN NextMatch(t.events, t.now_utc, 1) ELSE 0
    IN  IF i = 0
        THEN [t EXCEPT !.status = "done", !.idx = Len(t.events) + 1]
        ELSE [t EXCEPT !.status = "awaiting", !.idx = i,
                       !.sent = Append(t.sent, t.events[i])]

(* bot.py:140-160  the loop runs from position from to its next            *)
(* `await channel.send(msg)`, or to its end.                                *)
RunLoop(t, from) ==
    LET i == NextMatch(t.events, t.now_utc, from)
    IN  IF i = 0
        THEN [t EXCEPT !.status = "done", !.idx = Len(t.events) + 1]
        ELSE [t EXCEPT !.status = "awaiting", !.idx = i,
                       !.sent = Append(t.sent, t.events[i])]

(* Aborted with an exception raised for the missing channel *)
AbortedByException == [NoTick EXCEPT !.status = "fault"]

(* bot.py:133-135  the channel is not found: the iteration returns at once *)
Aborted == [NoTick EXCEPT !.status = "no_channel"]

(* One iteration starts: lines 132-138, then the loop up to its first send. *)
(* channel_found: client.get_channel(CHANNEL_ID) is not None.  lag: the     *)
(* seconds between the clock reads of line 137 and line 49.  An exception   *)
(* out of get_red_news leaves the coroutine and ends the task loop.         *)
check_news(channel_found, lag, response) ==
    /\ running
    /\ tick.status # "awaiting"
    /\ UNCHANGED reply
    /\ IF ~channel_found
       THEN /\ tick' = Aborted
            /\ UNCHANGED <<clock, LAST_FETCH, CACHED_EVENTS, running, call, lastGood>>
       ELSE LET now_utc == clock
                r == get_red_news(clock + lag, response, LAST_FETCH, CACHED_EVENTS)
            IN  /\ clock' = clock + lag
                /\ call' = CallRecord("check_news", clock + lag, response, r)
                /\ LAST_FETCH' = r.LAST_FETCH
                /\ CACHED_EVENTS' = r.CACHED_EVENTS
                /\ lastGood' = GoodAfter(clock + lag, response, r)
                /\ IF r.raised
                   THEN /\ running' = FALSE
                        /\ tick' = [NoTick EXCEPT !.status = "fault", !.now_utc = now_utc]
                   ELSE /\ running' = running
                        /\ tick' = RunLoop([NoTick EXCEPT !.now_utc = now_utc,
                                                          !.events = r.ret,
                                                          !.shared = ReturnsCache(r)], 1)

(* `await channel.send(msg)` returns and the loop goes on (bot.py:160-161). *)
check_news_resume ==
    /\ tick.status = "awaiting"
    /\ tick' = RunLoop(tick, tick.idx + 1)
    /\ UNCHANGED <<clock, LAST_FETCH, CACHED_EVENTS, running, call, reply, lastGood>>

-----------------------------------------------------------------------------
(* on_message (bot.py:164-196) and on_ready (bot.py:199-206) *)

Message(author, channel, content) ==
    [author |-> author, channel |-> channel, content |-> content]

Messages ==
    { Message("user", CHANNEL_ID, "!NextNews 3"),
      Message("user", CHANNEL_ID, "!next"),
      Message("user", "another channel", "!nextnews"),
      Message("bot", CHANNEL_ID, "!nextnews") }

(* bot.py:167-175  the message is a command this handler answers *)
Accepted(message) ==
    /\ message.author # "bot"
    /\ message.channel = CHANNEL_ID
    /\ StartsWith(Lower(Chars(message.content)), Chars(COMMAND))

(* sorted(events, key=lambda e: e[0]): a stable sort by event time *)
RECURSIVE Sorted(_)
Sorted(events) ==
    IF events = <<>> THEN <<>>
    ELSE LET n == Len(events)
             front == Sorted(SubSeq(events, 1, n - 1))
             e == events[n]
             before == SelectSeq(front, LAMBDA x : x[1] <= e[1])
             after == SelectSeq(front, LAMBDA x : x[1] > e[1])
         IN  before \o <<e>> \o after

(* CacheAfterSort with the list sorted and cut in place: events.sort(...),  *)
(* del events[3:]                                                           *)
CacheAfterSortInPlace(r) ==
    IF ReturnsCache(r) /\ r.ret # <<>>
    THEN LET s == Sorted(r.ret)
         IN  SubSeq(s, 1, IF Len(s) < NEXT_COUNT THEN Len(s) ELSE NEXT_COUNT)
    ELSE r.CACHED_EVENTS

(* bot.py:183  sorted(...) builds a new list and the slice another: the     *)
(* list get_red_news returned, which may be the cache's, is left as it was. *)
CacheAfterSort(r) == r.CACHED_EVENTS

(* NextNews cutting to three before sorting: sorted(events[:3]) *)
NextNewsCutFirst(events) ==
    Sorted(SubSeq(events, 1, IF Len(events) < NEXT_COUNT THEN Len(events) ELSE NEXT_COUNT))

(* bot.py:183  sorted(...)[:3] *)
NextNews(events) ==
    LET s == Sorted(events)
    IN  SubSeq(s, 1, IF Len(s) < NEXT_COUNT THEN Len(s) ELSE NEXT_COUNT)

(* bot.py:178-196  what the handler sends after get_red_news gave r.  An   *)
(* exception out of get_red_news leaves the handler: nothing is sent.      *)
Reply(r) ==
    IF r.raised THEN NoReply
    ELSE IF r.ret = <<>>
    THEN [kind |-> "no_upcoming", events |-> <<>>]
    ELSE [kind |-> "list", events |-> NextNews(r.ret)]

on_message(message, response) ==
    /\ UNCHANGED <<clock, running>>
    /\ IF ~Accepted(message)
       THEN UNCHANGED <<LAST_FETCH, CACHED_EVENTS, tick, call, reply, lastGood>>
       ELSE LET r == get_red_news(clock, response, LAST_FETCH, CACHED_EVENTS)
            IN  /\ call' = CallRecord("on_message", clock, response, r)
                /\ LAST_FETCH' = r.LAST_FETCH
                /\ CACHED_EVENTS' = CacheAfterSort(r)
                /\ tick' = Rebind(tick, r)
                /\ lastGood' = GoodAfter(clock, response, r)
                /\ reply' = Reply(r)

on_ready ==
    /\ running' = TRUE
    /\ UNCHANGED <<clock, LAST_FETCH, CACHED_EVENTS, tick, call, reply, lastGood>>

-----------------------------------------------------------------------------
(* The event loop.  A handler runs without interruption up to its next     *)
(* await; the state it leaves shows, in tick, call and reply, what it did. *)
(* Control then goes back to the loop (Return), which drops those records  *)
(* (an iteration waiting for a send keeps its locals and its call), and    *)
(* only then is the next handler dispatched or does time pass.             *)

Returning ==
    \/ tick.status \in {"done", "no_channel", "fault"}
    \/ call.caller = "on_message"
    \/ reply # NoReply

return ==
    /\ Returning
    /\ tick' = IF tick.status = "awaiting" THEN tick ELSE NoTick
    /\ call' = IF tick.status = "awaiting" /\ call.caller = "check_news"
               THEN call ELSE NoCall
    /\ reply' = NoReply
    /\ UNCHANGED <<clock, LAST_FETCH, CACHED_EVENTS, running, lastGood>>

(* The bot: the gateway connects, iterations of the loop start at any      *)
(* instant (the scheduler may run late or skip), messages arrive at any    *)
(* time, also while an iteration waits for a send.                         *)

Ready == ~Returning /\ on_ready /\ UNCHANGED <<hist, thread, inflight>>

Tick ==
    /\ ~Returning
    /\ \/ check_news(FALSE, 0, NoResponse)
       \/ \E lag \in Lags(EarlyMinutes) :
            \E response \in Requests(clock + lag, Responses) :
               check_news(TRUE, lag, response)
    /\ UNCHANGED <<hist, thread, inflight>>

Resume == ~Returning /\ check_news_resume /\ UNCHANGED <<hist, thread, inflight>>

Command ==
    /\ ~Returning
    /\ \E message \in Messages :
         \E response \in (IF Accepted(message)
                          THEN Requests(clock, Responses) ELSE {NoResponse}) :
            on_message(message, response)
    /\ UNCHANGED <<hist, thread, inflight>>

Return == return /\ UNCHANGED <<hist, thread, inflight>>

Advance == ~Returning /\ Pass(EarlyMinutes) /\ UNCHANGED <<hist, thread, inflight>>

Next == Ready \/ Tick \/ Resume \/ Command \/ Return \/ Advance

Spec == Init /\ [][Next]_vars

-----------------------------------------------------------------------------
(* The bot with the task loop on its cadence: each iteration starts        *)
(* exactly LOOP_SECONDS after the one before (bot.py:126), none is skipped. *)
(* hist records the iterations: when each started, whether the channel was  *)
(* found, the snapshot it got and the alerts it has sent.                   *)

Last(h) == h[Len(h)]

(* The feeds served while the cadence is observed. *)
CadenceComponents == {CompCPI, CompNFP, CompHoliday, CompNoStart}

CadenceResponses ==
    {TransportFailure, Status(429), Garbled}
       \cup {Calendar(doc) : doc \in SeqsUpTo(CadenceComponents, MaxDocLen)}

Iteration(at, found, t) ==
    [at |-> at, found |-> found, faulted |-> t.status = "fault",
     events |-> t.events, sent |-> t.sent]

CadenceTick ==
    /\ ~Returning
    /\ hist # <<>> => clock = Last(hist).at + LOOP_SECONDS
    /\ \E channel_found \in BOOLEAN :
          /\ IF channel_found
             THEN \E lag \in Lags(CadenceMinutes) :
                     \E response \in Requests(clock + lag, CadenceResponses) :
                        check_news(TRUE, lag, response)
             ELSE check_news(FALSE, 0, NoResponse)
          /\ hist' = Append(hist, Iteration(clock, channel_found, tick'))
    /\ UNCHANGED <<thread, inflight>>

CadenceResume ==
    /\ ~Returning
    /\ check_news_resume
    /\ hist' = [hist EXCEPT ![Len(hist)] = Iteration(@.at, @.found, tick')]
    /\ UNCHANGED <<thread, inflight>>

CadenceCommand ==
    /\ ~Returning
    /\ \E message \in Messages :
          \E response \in (IF Accepted(message)
                           THEN Requests(clock, CadenceResponses) ELSE {NoResponse}) :
             on_message(message, response)
    /\ UNCHANGED <<hist, thread, inflight>>

CadenceAdvance ==
    /\ ~Returning
    /\ Pass(CadenceMinutes)
    /\ hist # <<>> => clock' <= Last(hist).at + LOOP_SECONDS
    /\ UNCHANGED <<hist, thread, inflight>>

NextCadence ==
    Ready \/ CadenceTick \/ CadenceResume \/ CadenceCommand \/ Return \/ CadenceAdvance

SpecCadence == Init /\ [][NextCadence]_vars

-----------------------------------------------------------------------------
(* The bot answering commands over feeds of hours-away events, in any      *)
(* order and with equal times, while the cache filled by the first command  *)
(* is fresh.                                                                *)

CompRate == Component("VEVENT", AllKeys, "Impact: High", "Rate", UtcDateTime(3600))
CompJobs == Component("VEVENT", AllKeys, "Impact: High", "Jobs", UtcDateTime(10800))
CompTrade == Component("VEVENT", AllKeys, "Impact: High", "Trade", UtcDateTime(7200))
CompSales == Component("VEVENT", AllKeys, "Impact: High", "Sales", UtcDateTime(7200))

QueryComponents == {CompRate, CompJobs, CompTrade, CompSales}

QueryResponses ==
    {TransportFailure} \cup {Calendar(doc) : doc \in SeqsUpTo(QueryComponents, MaxQueryLen)}

QueryCommand ==
    /\ ~Returning
    /\ \E message \in Messages :
          \E response \in (IF Accepted(message)
                           THEN Requests(clock, QueryResponses) ELSE {NoResponse}) :
             on_message(message, response)
    /\ UNCHANGED <<hist, thread, inflight>>

QueryAdvance ==
    /\ ~Returning
    /\ Pass(EarlyMinutes)
    /\ LAST_FETCH # None => Fresh(clock', LAST_FETCH)
    /\ UNCHANGED <<hist, thread, inflight>>

NextQuery == QueryCommand \/ Return \/ QueryAdvance

SpecQuery == Init /\ [][NextQuery]_vars

-----------------------------------------------------------------------------
(* The bot with requests.get taking time.  get_red_news is a plain          *)
(* function called from the coroutines check_news and on_message, which the *)
(* one thread of the event loop runs; between the request and its response  *)
(* (at most FETCH_TIMEOUT seconds) the invocation is in `inflight`.  A      *)
(* handler is dispatched only when the thread is back in the event loop.    *)

CompPMI == Component("VEVENT", AllKeys, "Impact: High", "PMI", UtcDateTime(1499))
CompRetail == Component("VEVENT", AllKeys, "Impact: High", "Retail", UtcDateTime(1498))

FetchComponents == {CompCPI, CompPMI, CompRetail}

FetchResponses ==
    {TransportFailure, Status(429), Garbled, Calendar(<<CompNoStart>>)}
       \cup {Calendar(doc) : doc \in SeqsUpTo(FetchComponents, MaxDocLen)}

(* ThreadDuringFetch if the request were awaited: the thread goes back to  *)
(* the event loop while the request is outstanding.                         *)
ThreadDuringFetchAwaited == "loop"

(* bot.py:59  requests.get is a blocking call made on the thread of the     *)
(* event loop: the thread stays in it until the response is there.          *)
ThreadDuringFetch == "requests.get"

Invocation(caller, now_utc) == [caller |-> caller, now_utc |-> now_utc]

Without(s, i) == SubSeq(s, 1, i - 1) \o SubSeq(s, i + 1, Len(s))

(* Outstanding with the request sent again after a failure: a retry loop   *)
(* around requests.get                                                      *)
OutstandingRetry(s, i, r) ==
    IF r.path \in {"error", "rate_limited"} THEN s ELSE Without(s, i)

(* bot.py:58-77  requests.get is called once, outside any loop: whatever it *)
(* yields, invocation i has no request outstanding afterwards.              *)
Outstanding(s, i, r) == Without(s, i)

(* bot.py:132-138, 49-63  an iteration starts with the channel found and    *)
(* the cache not fresh: get_red_news sends the request.                      *)
check_news_request(lag) ==
    /\ running
    /\ tick.status \notin {"awaiting", "fetching"}
    /\ ~Fresh(clock + lag, LAST_FETCH)
    /\ clock' = clock + lag
    /\ tick' = [NoTick EXCEPT !.status = "fetching", !.now_utc = clock]
    /\ inflight' = Append(inflight, Invocation("check_news", clock + lag))
    /\ thread' = ThreadDuringFetch
    /\ UNCHANGED <<LAST_FETCH, CACHED_EVENTS, running, call, reply, lastGood>>

(* bot.py:175-176, 49-63  the command arrives with the cache not fresh. *)
on_message_request(message) ==
    /\ Accepted(message)
    /\ ~Fresh(clock, LAST_FETCH)
    /\ inflight' = Append(inflight, Invocation("on_message", clock))
    /\ thread' = ThreadDuringFetch
    /\ UNCHANGED <<clock, LAST_FETCH, CACHED_EVENTS, running, tick, call, reply, lastGood>>

(* bot.py:63-123  requests.get of invocation i returns with response (or   *)
(* raises); get_red_news finishes and its caller runs on to its next await. *)
get_red_news_response(i, response) ==
    LET inv == inflight[i]
        r == refresh(inv.now_utc, response, LAST_FETCH, CACHED_EVENTS)
    IN  /\ inflight' = Outstanding(inflight, i, r)
        /\ thread' = "loop"
        /\ call' = CallRecord(inv.caller, inv.now_utc, response, r)
        /\ LAST_FETCH' = r.LAST_FETCH
        /\ lastGood' = GoodAfter(inv.now_utc, response, r)
        /\ UNCHANGED clock
        /\ IF inv.caller = "check_news"
           THEN /\ CACHED_EVENTS' = r.CACHED_EVENTS
                /\ running' = (running /\ ~r.raised)
                /\ tick' = IF r.raised
                           THEN [tick EXCEPT !.status = "fault"]
                           ELSE RunLoop([tick EXCEPT !.events = r.ret,
                                                     !.shared = ReturnsCache(r)], 1)
                /\ UNCHANGED reply
           ELSE /\ CACHED_EVENTS' = CacheAfterSort(r)
                /\ tick' = Rebind(tick, r)
                /\ reply' = Reply(r)
                /\ UNCHANGED running

FetchReady == thread = "loop" /\ Ready

FetchTick ==
    /\ thread = "loop"
    /\ ~Returning
    /\ tick.status # "fetching"
    /\ \E lag \in Lags(EarlyMinutes) :
          IF Fresh(clock + lag, LAST_FETCH)
          THEN check_news(TRUE, lag, NoResponse) /\ UNCHANGED <<hist, thread, inflight>>
          ELSE Len(inflight) < MaxInFlight /\ check_news_request(lag) /\ UNCHANGED hist

FetchResume == thread = "loop" /\ Resume

(* Any message is dispatched: one the handler ignores, the command served  *)
(* from the cache, or the command sending a request.                        *)
FetchCommand ==
    /\ thread = "loop"
    /\ ~Returning
    /\ \E message \in Messages :
          IF Accepted(message) /\ ~Fresh(clock, LAST_FETCH)
          THEN Len(inflight) < MaxInFlight /\ on_message_request(message) /\ UNCHANGED hist
          ELSE on_message(message, NoResponse) /\ UNCHANGED <<hist, thread, inflight>>

FetchResponse ==
    /\ ~Returning
    /\ \E i \in 1..Len(inflight) :
          \E response \in FetchResponses : get_red_news_response(i, response)
    /\ UNCHANGED hist

(* Time passes, also while the thread is in requests.get(timeout=10). *)
FetchAdvance ==
    /\ ~Returning
    /\ Pass(EarlyMinutes)
    /\ \A i \in 1..Len(inflight) : clock' - inflight[i].now_utc <= FETCH_TIMEOUT
    /\ UNCHANGED <<hist, thread, inflight>>

NextFetch ==
    FetchReady \/ FetchTick \/ FetchResume \/ FetchCommand \/ FetchResponse
       \/ Return \/ FetchAdvance

SpecFetch == Init /\ [][NextFetch]_vars

-----------------------------------------------------------------------------
(* The bot with iterations of check_news started at any instants, also      *)
(* seconds apart (the loop restarted by on_ready, a late iteration followed *)
(* by a punctual one), hist recording them.                                 *)

RapidResponses ==
    {TransportFailure, Calendar(<<CompCPI>>), Calendar(<<CompNFP, CompCPI>>)}

RapidTick ==
    /\ ~Returning
    /\ Len(hist) < MaxTicks
    /\ \E channel_found \in BOOLEAN :
          /\ IF channel_found
             THEN \E lag \in Lags(EarlyMinutes) :
                     \E response \in Requests(clock + lag, RapidResponses) :
                        check_news(TRUE, lag, response)
             ELSE check_news(FALSE, 0, NoResponse)
          /\ hist' = Append(hist, Iteration(clock, channel_found, tick'))
    /\ UNCHANGED <<thread, inflight>>

RapidCommand ==
    /\ ~Returning
    /\ \E message \in Messages :
          \E response \in (IF Accepted(message)
                           THEN Requests(clock, RapidResponses) ELSE {NoResponse}) :
             on_message(message, response)
    /\ UNCHANGED <<hist, thread, inflight>>

NextRapid ==
    Ready \/ RapidTick \/ CadenceResume \/ RapidCommand \/ Return \/ Advance

SpecRapid == Init /\ [][NextRapid]_vars

-----------------------------------------------------------------------------
(* Properties of the trigger window *)

(* The events of a snapshot that an iteration at now must alert, in order. *)
Due(events, now) ==
    SelectSeq(events, LAMBDA e : 9 * 60 < e[1] - now /\ e[1] - now <= 10 * 60)

(* C1: an iteration that has run to its end has sent an alert for exactly  *)
(* the events of its snapshot with 9 min < occursAt - now <= 10 min (one    *)
(* per event, none for any other); while it waits for a send it has sent    *)
(* exactly those among the events it has passed.  In particular 9:00 does   *)
(* not fire, 9:01 and 10:00 fire, 10:01 does not.                           *)
C1_AlertIffInWindow ==
    /\ tick.status = "done" => tick.sent = Due(tick.events, tick.now_utc)
    /\ tick.status = "awaiting" =>
          tick.sent = Due(SubSeq(tick.events, 1, tick.idx), tick.now_utc)
    /\ tick.status \in {"done", "awaiting"} =>
          \A e \in Range(tick.events) :
             /\ e[1] - tick.now_utc \in {9 * 60, 10 * 60 + 1} => e \notin Range(tick.sent)
             /\ tick.status = "done" /\ e[1] - tick.now_utc \in {9 * 60 + 1, 10 * 60}
                   => e \in Range(tick.sent)

(* An iteration ended with one event exactly 10:00 away, alerted, and one  *)
(* exactly 10:01 away, not alerted.                                         *)
C1_Witness ==
    /\ tick.status = "done"
    /\ \E e \in Range(tick.events) :
          e[1] - tick.now_utc = 10 * 60 /\ e \in Range(tick.sent)
    /\ \E e \in Range(tick.events) :
          e[1] - tick.now_utc = 10 * 60 + 1 /\ e \notin Range(tick.sent)

(* The scenario of C2: the iteration at now fetched a calendar of two      *)
(* records, a high-impact one at now + 10:00 and a normal one at now + 5:00 *)
C2_Scenario ==
    /\ tick.status \in {"awaiting", "done"}
    /\ call.caller = "check_news"
    /\ call.path = "refreshed"
    /\ Len(call.response.walk) = 2
    /\ \E i, j \in 1..2 :
          LET high == call.response.walk[i]
              normal == call.response.walk[j]
          IN  /\ high.name = "VEVENT" /\ normal.name = "VEVENT"
              /\ "DTSTART" \in high.keys /\ "DTSTART" \in normal.keys
              /\ high.SUMMARY \notin NormalSummaries
              /\ normal.SUMMARY \in NormalSummaries
              /\ EventTime(high.DTSTART) = tick.now_utc + 10 * 60
              /\ EventTime(normal.DTSTART) = tick.now_utc + 5 * 60

(* C2 as stated: in that scenario the iteration sends no alert. *)
C2_Original == C2_Scenario => tick.sent = <<>>

(* C2, amended: in that scenario the iteration sends exactly one alert,    *)
(* for the high-impact event 10:00 away; none for the normal one.           *)
C2_OneAlertAtTenMinutes ==
    C2_Scenario =>
        /\ Len(tick.sent) = 1
        /\ tick.sent[1][1] = tick.now_utc + 10 * 60
        /\ tick.sent[1][2] \notin NormalSummaries

(* An iteration in that scenario ran to its end. *)
C2_Witness == C2_Scenario /\ tick.status = "done"

(* The iterations that have alerted event e. *)
AlertedBy(e) == {k \in 1..Len(hist) : e \in Range(hist[k].sent)}

(* The hypotheses of C3 for event e: iterations 60 seconds apart, the      *)
(* channel found by each, and e in every snapshot from an iteration that    *)
(* ran before e was 10 minutes away until e occurs.                         *)
C3_Hypotheses(e) ==
    /\ \A k \in 2..Len(hist) : hist[k].at = hist[k - 1].at + 60
    /\ \A k \in 1..Len(hist) : hist[k].found /\ ~hist[k].faulted
    /\ \E k0 \in 1..Len(hist) :
          /\ hist[k0].at < e[1] - 10 * 60
          /\ \A k \in k0..Len(hist) : hist[k].at < e[1] => e \in Range(hist[k].events)

(* C3: under these hypotheses no event is alerted by two iterations, and   *)
(* once an iteration that started when the event was at most 10 minutes    *)
(* away has run to its end, exactly one iteration has alerted it.           *)
C3_AlertedOnExactlyOneTick ==
    \A e \in UNION {Range(hist[k].events) : k \in 1..Len(hist)} :
       C3_Hypotheses(e) =>
          /\ Cardinality(AlertedBy(e)) <= 1
          /\ (Last(hist).at >= e[1] - 10 * 60 /\ tick.status # "awaiting")
                => Cardinality(AlertedBy(e)) = 1

(* Three iterations or more on the cadence, the last one after the event   *)
(* left the window, and one of them alerted it.                             *)
C3_Witness ==
    /\ Len(hist) >= 3
    /\ \E e \in Range(Last(hist).events) :
          /\ C3_Hypotheses(e)
          /\ Last(hist).at >= e[1] - 9 * 60
          /\ Cardinality(AlertedBy(e)) = 1

(* The positions of the snapshot of the iteration under way that are in   *)
(* the trigger window at its instant.                                       *)
InWindowPositions ==
    {i \in 1..Len(tick.events) :
        9 * 60 < tick.events[i][1] - tick.now_utc
           /\ tick.events[i][1] - tick.now_utc <= 10 * 60}

(* C15: an iteration that has run to its end has sent one message for each *)
(* position of its snapshot that is in the window, the k-th message for the *)
(* k-th such position: the order of the cache, whatever the event times.    *)
C15_OneMessagePerMatchInCacheOrder ==
    tick.status = "done" =>
        /\ Len(tick.sent) = Cardinality(InWindowPositions)
        /\ \A i \in InWindowPositions :
              tick.sent[Cardinality({j \in InWindowPositions : j <= i})] = tick.events[i]

(* An iteration sent two messages, the later event first. *)
C15_Witness ==
    /\ tick.status = "done"
    /\ Len(tick.sent) = 2
    /\ tick.sent[1][1] > tick.sent[2][1]

(* Iteration k has run to its end. *)
Ended(k) == k < Len(hist) \/ tick.status # "awaiting"

(* C14: an event that is in the snapshots of two iterations and in the     *)
(* window at the instants of both is alerted by both, once they have        *)
(* ended: that it was alerted before is recorded nowhere.                   *)
C14_AlertedAgainWhileInWindow ==
    \A k1, k2 \in 1..Len(hist) :
       (k1 < k2 /\ Ended(k2)) =>
          \A e \in Range(hist[k1].events) \cap Range(hist[k2].events) :
             ( /\ 9 * 60 < e[1] - hist[k1].at /\ e[1] - hist[k1].at <= 10 * 60
               /\ 9 * 60 < e[1] - hist[k2].at /\ e[1] - hist[k2].at <= 10 * 60 )
                => e \in Range(hist[k1].sent) /\ e \in Range(hist[k2].sent)

(* Two iterations less than 60 seconds apart have alerted the same event. *)
C14_Witness ==
    \E k1, k2 \in 1..Len(hist) :
       /\ hist[k1].at < hist[k2].at
       /\ hist[k2].at - hist[k1].at < 60
       /\ Range(hist[k1].sent) \cap Range(hist[k2].sent) # {}

-----------------------------------------------------------------------------
(* Properties of the cache *)

(* C4: a call made when a successful fetch exists and is less than 15      *)
(* minutes old returns the stored events and fetches nothing, and leaves    *)
(* the cache as it was; every other call invokes the fetcher.               *)
C4_FetchIffExpired ==
    call.caller # "none" =>
        /\ call.fetched <=>
              ~ (call.prevFetch # None /\ call.now_utc - call.prevFetch < 15 * 60)
        /\ ~call.fetched =>
              /\ ~call.raised
              /\ call.ret = call.prevEvents
              /\ CACHED_EVENTS = call.prevEvents
              /\ LAST_FETCH = call.prevFetch

(* A call one second before the stored events expire: served, not fetched. *)
C4_Witness ==
    /\ call.prevFetch # None
    /\ call.now_utc - call.prevFetch = 15 * 60 - 1
    /\ ~call.fetched
    /\ call.ret # <<>>

(* C5 as stated: whenever a refresh attempt does not succeed, the call     *)
(* returns the events stored before it, and the cache is left as it was.   *)
C5_FailedRefreshServesStored ==
    (call.fetched /\ call.path # "refreshed") =>
        /\ ~call.raised
        /\ call.ret = call.prevEvents
        /\ CACHED_EVENTS = call.prevEvents
        /\ LAST_FETCH = call.prevFetch

(* C6 as stated: no call of get_red_news ends in an exception, and the     *)
(* task loop is still running after an iteration whose fetch failed.        *)
C6_NoFeedFaultEscapes ==
    /\ ~call.raised
    /\ tick.status # "fault"
    /\ (call.caller = "check_news" /\ call.fetched) => running

(* C7: the stored events and fetchedAt are those of the most recent        *)
(* successful refresh (empty and absent if there was none): a successful    *)
(* refresh replaces the events by the newly normalized ones and sets        *)
(* fetchedAt to the instant read at the start of the call; any other call   *)
(* leaves both as they were.                                                *)
C7_ReplacedWholesale ==
    /\ CACHED_EVENTS = lastGood.events
    /\ LAST_FETCH = lastGood.at
    /\ LAST_FETCH = None => CACHED_EVENTS = <<>>
    /\ call.path = "refreshed" =>
          /\ CACHED_EVENTS = call.ret
          /\ LAST_FETCH = call.now_utc
    /\ (call.caller # "none" /\ call.path # "refreshed") =>
          /\ CACHED_EVENTS = call.prevEvents
          /\ LAST_FETCH = call.prevFetch

(* A successful refresh that found nothing upcoming replaced stored events *)
(* by the empty sequence.                                                   *)
C7_Witness ==
    /\ call.path = "refreshed"
    /\ call.prevEvents # <<>>
    /\ CACHED_EVENTS = <<>>

(* C8: every stored event occurs strictly after fetchedAt; a refresh keeps *)
(* a qualifying record exactly when its instant is after the instant of     *)
(* the call, so one that starts at that very instant is dropped.            *)
C8_OnlyFutureEvents ==
    /\ \A i \in 1..Len(CACHED_EVENTS) :
          LAST_FETCH # None /\ CACHED_EVENTS[i][1] > LAST_FETCH
    /\ call.path = "refreshed" =>
          \A k \in 1..Len(call.response.walk) :
             LET c == call.response.walk[k]
                 e == <<EventTime(c.DTSTART), Get(c, "SUMMARY", "Unknown event")>>
             IN  Qualifies(c) =>
                    (e \in Range(CACHED_EVENTS) <=> EventTime(c.DTSTART) > call.now_utc)

(* A refresh met a qualifying record starting at the instant of the call   *)
(* and dropped it, while keeping a later one.                               *)
C8_Witness ==
    /\ call.path = "refreshed"
    /\ CACHED_EVENTS # <<>>
    /\ \E k \in 1..Len(call.response.walk) :
          /\ Qualifies(call.response.walk[k])
          /\ EventTime(call.response.walk[k].DTSTART) = call.now_utc

(* C9: no alert is sent, and no event is stored, for a record whose        *)
(* description has neither marker.                                          *)
C9_NoAlertForNormalImpact ==
    /\ \A i \in 1..Len(tick.sent) : tick.sent[i][2] \notin NormalSummaries
    /\ \A i \in 1..Len(CACHED_EVENTS) : CACHED_EVENTS[i][2] \notin NormalSummaries

(* An iteration fetched a calendar with a normal-impact record inside the  *)
(* trigger window, alerted another event and ended.                         *)
C9_Witness ==
    /\ tick.status = "done"
    /\ tick.sent # <<>>
    /\ call.caller = "check_news"
    /\ call.path = "refreshed"
    /\ \E k \in 1..Len(call.response.walk) :
          LET c == call.response.walk[k]
          IN  /\ c.SUMMARY \in NormalSummaries
              /\ 9 * 60 < EventTime(c.DTSTART) - tick.now_utc
              /\ EventTime(c.DTSTART) - tick.now_utc <= 10 * 60

-----------------------------------------------------------------------------
(* Properties of the command *)

(* How many times event e occurs in the sequence events. *)
Count(events, e) == Cardinality({i \in 1..Len(events) : events[i] = e})

Times(events) == [i \in 1..Len(events) |-> events[i][1]]

(* C10: the command's answer is made of the snapshot it got from the       *)
(* cache: as many events as the snapshot has, three at most, in             *)
(* non-decreasing time order, each one an event of the snapshot, and no     *)
(* event left out is earlier than one returned.  A snapshot with events at  *)
(* +1h, +3h, +2h in that order is answered starting with +1h, +2h.  An      *)
(* empty snapshot is answered with "no upcoming events".                    *)
C10_NextNewsEarliestInOrder ==
    (call.caller = "on_message" /\ ~call.raised) =>
       LET s == call.ret
           r == reply.events
       IN  /\ reply.kind = (IF s = <<>> THEN "no_upcoming" ELSE "list")
           /\ Len(r) = (IF Len(s) < 3 THEN Len(s) ELSE 3)
           /\ \A i, j \in 1..Len(r) : i < j => r[i][1] <= r[j][1]
           /\ \A i \in 1..Len(r) : Count(r, r[i]) <= Count(s, r[i])
           /\ \A k \in 1..Len(s) :
                 Count(r, s[k]) < Count(s, s[k])
                    => \A i \in 1..Len(r) : r[i][1] <= s[k][1]
           /\ Times(s) = <<clock + 3600, clock + 10800, clock + 7200>>
                 => SubSeq(Times(r), 1, 2) = <<clock + 3600, clock + 7200>>

(* A command answered from a snapshot of four events whose earliest is the *)
(* last one of the snapshot.                                                *)
C10_Witness ==
    /\ call.caller = "on_message"
    /\ reply.kind = "list"
    /\ Len(call.ret) = 4
    /\ \A k \in 1..3 : call.ret[k][1] > call.ret[4][1]
    /\ reply.events[1] = call.ret[4]

(* What a call of get_red_news recorded in c leaves in the cache, given    *)
(* what was there before it.                                                *)
LeftEvents(c, before) == IF c.path = "refreshed" THEN c.ret ELSE before
LeftFetch(c, before) == IF c.path = "refreshed" THEN c.now_utc ELSE before

(* C17: after the command handler has sorted and cut its result and sent   *)
(* its answer, the stored events (contents and order) and fetchedAt are     *)
(* what its call of get_red_news left; the same holds for an iteration of   *)
(* the loop, and a step of an iteration after its call changes neither.  A  *)
(* call served from the cache afterwards gets the events in the order of    *)
(* the last successful fetch.                                               *)
C17_HandlersLeaveCacheAlone ==
    [][ /\ (call'.caller # "none" /\ call' # call) =>
              /\ CACHED_EVENTS' = LeftEvents(call', CACHED_EVENTS)
              /\ LAST_FETCH' = LeftFetch(call', LAST_FETCH)
        /\ (tick.status = "awaiting" /\ tick'.idx # tick.idx) =>
              UNCHANGED <<CACHED_EVENTS, LAST_FETCH>>
        /\ (call'.path = "cached" /\ call' # call) =>
              call'.ret = lastGood.events
      ]_vars

(* The command answered with the events in time order while the cache      *)
(* holds them in another order.                                             *)
C17_Witness ==
    /\ call.caller = "on_message"
    /\ reply.kind = "list"
    /\ CACHED_EVENTS = call.ret
    /\ reply.events[1] # CACHED_EVENTS[1]

-----------------------------------------------------------------------------
(* Properties of the normalizer *)

(* The descriptions of the feeds that contain one of the two markers. *)
MarkedDescriptions == {"Impact: High", "High Impact Expected", "USD High Impact Expected."}

(* The positions of the event records of walk that are to be kept at now. *)
Kept(walk, now) ==
    {i \in 1..Len(walk) :
        /\ walk[i].name = "VEVENT"
        /\ "DESCRIPTION" \in walk[i].keys
        /\ walk[i].DESCRIPTION \in MarkedDescriptions
        /\ EventTime(walk[i].DTSTART) > now}

(* C13: a call that fetched and normalized a document returns one event    *)
(* for each record with a marker and a start after the instant of the      *)
(* call, and nothing else, in the order of the records in the document.    *)
C13_NormalizeIsOrderedSubsequence ==
    call.path = "refreshed" =>
        LET walk == call.response.walk
            keep == Kept(walk, call.now_utc)
        IN  /\ Len(call.ret) = Cardinality(keep)
            /\ \A i \in keep :
                  call.ret[Cardinality({j \in keep : j <= i})] =
                     <<EventTime(walk[i].DTSTART),
                       IF "SUMMARY" \in walk[i].keys THEN walk[i].SUMMARY
                       ELSE "Unknown event">>

(* A document whose two kept records are not in time order: the later      *)
(* event is returned first.                                                 *)
C13_Witness ==
    /\ call.path = "refreshed"
    /\ Len(call.ret) = 2
    /\ call.ret[1][1] > call.ret[2][1]

-----------------------------------------------------------------------------
(* Properties of the delivery *)

(* C16: an iteration that does not find the channel sends nothing, ends    *)
(* without an exception and leaves the loop running; it calls get_red_news  *)
(* not at all, so nothing is fetched and the cache is as it was.  The       *)
(* iteration after it, finding the channel, takes its snapshot and goes on  *)
(* to the first event in the window as any iteration does.                  *)
C16_ChannelUnavailableAbortsOnlyThatTick ==
    [][ /\ (Len(hist') = Len(hist) + 1 /\ ~Last(hist').found) =>
              /\ tick'.sent = <<>>
              /\ ~Last(hist').faulted
              /\ running'
              /\ call' = NoCall
              /\ inflight' = <<>>
              /\ UNCHANGED <<LAST_FETCH, CACHED_EVENTS>>
        /\ ( /\ Len(hist') = Len(hist) + 1
             /\ hist # <<>>
             /\ ~Last(hist).found
             /\ Last(hist').found /\ ~Last(hist').faulted ) =>
              LET due == Due(tick'.events, tick'.now_utc)
              IN  /\ call'.caller = "check_news"
                  /\ tick'.events = call'.ret
                  /\ IF due = <<>>
                     THEN tick'.status = "done" /\ tick'.sent = <<>>
                     ELSE tick'.status = "awaiting" /\ tick'.sent = <<due[1]>>
      ]_vars

(* An iteration without the channel, and the next one, 60 seconds later,   *)
(* alerting an event.                                                       *)
C16_Witness ==
    \E k \in 1..(Len(hist) - 1) :
       /\ ~hist[k].found
       /\ hist[k + 1].found
       /\ hist[k + 1].sent # <<>>

-----------------------------------------------------------------------------
(* Properties of the event loop *)

(* C11: at most one invocation of get_red_news has found the cache not     *)
(* fresh and has its request outstanding, whatever the interleaving of      *)
(* iterations and commands.                                                 *)
C11_OneRefreshInFlight == Len(inflight) <= 1

(* The command has a request outstanding while an iteration is suspended   *)
(* in a send.                                                               *)
C11_Witness ==
    /\ tick.status = "awaiting"
    /\ Len(inflight) = 1
    /\ inflight[1].caller = "on_message"

(* C12 as stated: while a request is outstanding a message can be          *)
(* dispatched to its handler.                                               *)
C12_MessagesHandledDuringFetch == inflight # <<>> => ENABLED FetchCommand


(* C18: an iteration evaluates the one snapshot its call of get_red_news   *)
(* returned: while it is suspended in a send, whatever else runs, also a   *)
(* command that refreshes the cache, its snapshot and its instant stay as   *)
(* they were, and each further alert is for a later position of that        *)
(* snapshot.                                                                *)
C18_TickKeepsItsSnapshot ==
    [][ /\ (call'.caller = "check_news" /\ call' # call /\ ~call'.raised) =>
              tick'.events = call'.ret
        /\ tick.status = "awaiting" =>
              /\ tick'.status \in {"awaiting", "done"}
              /\ tick'.events = tick.events
              /\ tick'.now_utc = tick.now_utc
              /\ \/ tick'.sent = tick.sent
                 \/ \E i \in (tick.idx + 1)..Len(tick.events) :
                       /\ tick'.idx = i
                       /\ tick'.sent = Append(tick.sent, tick.events[i])
      ]_vars

(* An iteration is suspended in its first send with a second event of its *)
(* snapshot still to alert, and a command, seconds after the iteration      *)
(* started, has replaced the stored events by others.                       *)
C18_Witness ==
    /\ tick.status = "awaiting"
    /\ tick.idx = 1
    /\ Len(tick.events) = 2
    /\ 9 * 60 < tick.events[2][1] - tick.now_utc
    /\ tick.events[2][1] - tick.now_utc <= 10 * 60
    /\ LAST_FETCH > tick.now_utc
    /\ LAST_FETCH - tick.now_utc <= 10
    /\ CACHED_EVENTS # tick.events
    /\ ~tick.shared


(* C19: a call of get_red_news that fetches sends one request and, when it *)
(* returns, has none outstanding; a refresh that fails leaves fetchedAt as  *)
(* it was; and a call is served without a request only if a successful      *)
(* refresh less than 15 minutes old exists: after a failure every call      *)
(* made with the cache expired or never filled sends a request again.       *)
C19_OneFetchPerCallRetriedByNextCall ==
    [][ /\ (call' # call /\ call'.fetched) =>
              /\ Len(inflight') = Len(inflight) - 1
              /\ call'.path # "refreshed" => LAST_FETCH' = LAST_FETCH
        /\ (call' # call /\ call'.caller # "none" /\ ~call'.fetched) =>
              /\ lastGood.at # None
              /\ call'.now_utc - lastGood.at < 15 * 60
              /\ UNCHANGED inflight
        /\ Len(inflight') > Len(inflight) =>
              /\ Len(inflight') = Len(inflight) + 1
              /\ lastGood.at # None =>
                    inflight'[Len(inflight')].now_utc - lastGood.at >= 15 * 60
      ]_vars

(* An iteration whose refresh of the expired cache failed is suspended in  *)
(* a send, and the command that came next has sent a request again.         *)
C19_Witness ==
    /\ tick.status = "awaiting"
    /\ call.caller = "check_news"
    /\ call.fetched
    /\ call.path = "error"
    /\ LAST_FETCH = call.prevFetch
    /\ Len(inflight) = 1
    /\ inflight[1].caller = "on_message"

====
